---- MODULE Spec2Model ----
(***************************************************************************)
(* Model of the management-ingress core:                                   *)
(*   - the certificate path (pkg/ingress/controller/backend_ssl.go):       *)
(*     syncSecret, getPemCertificate, checkSSLChainIssues and              *)
(*     checkMissingSecrets, as atomic calls, as concurrent goroutines and  *)
(*     with the sweep on its timer;                                        *)
(*   - the request-time gate (the Lua access module): the three            *)
(*     validate_*_or_exit handlers and their exit helpers.                 *)
(* Strings that the code takes apart (identifiers, paths, header values)   *)
(* are sequences of tokens, so that replacing, splitting and matching are  *)
(* computed and not assumed.                                               *)
(***************************************************************************)
EXTENDS Naturals, Sequences, FiniteSets, TLC

\* ------------------------------------------------------------------------
\* Certificate path: values
\* ------------------------------------------------------------------------

\* A data key that the secret's Data map does not hold.
Absent == <<"absent", 0>>
\* A nil byte slice (a map entry holding nil, or the lookup of a missing key).
Nil == <<"nil", 0>>

\* How many distinct certificates the secrets may carry.
NumCerts == 2

CertBytes == {<<"crt", i>> : i \in 1..NumCerts}
KeyBytes == {<<"key", 1>>}
CABytes == {<<"ca", 1>>}

\* Identifiers namespace/name, as token sequences.
K1 == <<"ns", "/", "web", "-", "tls">>
K2 == <<"ns", "-", "web", "/", "tls">>
Keys == {K1, K2}

NoPath == <<>>

\* What listers.Secret.GetByName can answer: an error, or a secret whose Data
\* holds or lacks each of tls.crt, tls.key and ca.crt.
Lookups ==
    [found : {TRUE},
     crt : {Absent, Nil} \cup CertBytes,
     key : {Absent, Nil} \cup KeyBytes,
     ca : {Absent} \cup CABytes]
    \cup [found : {FALSE}, crt : {Absent}, key : {Absent}, ca : {Absent}]

\* The missing secret, and the secret that holds the first keypair and no CA.
KeypairLookups ==
    {l \in Lookups : ~l.found \/ (l.crt = <<"crt", 1>> /\ l.key \in KeyBytes /\ l.ca = Absent)}

\* The answers drawn for each identifier: every shape of secret for K1, the
\* keypair secret (or none) for K2.
LookupsOf(key) == IF key = K1 THEN Lookups ELSE KeypairLookups

NoLookup == [found |-> FALSE, crt |-> Absent, key |-> Absent, ca |-> Absent]

\* strings.Replace(secretName, "/", "-", -1)
ReplaceSlash(secretName) ==
    [i \in 1..Len(secretName) |-> IF secretName[i] = "/" THEN "-" ELSE secretName[i]]

\* Position of the first "/" of an identifier (0 when it has none).
SlashAt(k) ==
    IF \E i \in 1..Len(k) : k[i] = "/"
    THEN CHOOSE i \in 1..Len(k) : k[i] = "/" /\ \A j \in 1..(i - 1) : k[j] # "/"
    ELSE 0

\* The secret stored under namespace/name carries that namespace and name.
SecretNamespace(k) == SubSeq(k, 1, SlashAt(k) - 1)
SecretName(k) == SubSeq(k, SlashAt(k) + 1, Len(k))

DefaultSSLDirectory == <<"ssl">>

\* The zero ingress.SSLCert.
ZeroCert ==
    [Name |-> <<>>, Namespace |-> <<>>, Certificate |-> Nil, Key |-> Nil,
     CA |-> Nil, PemFileName |-> NoPath, FullChainPemFileName |-> NoPath]

\* ssl.AddOrUpdateCertAndKey(name, cert, key, ca): the TLS record of a keypair,
\* the CA attached when there is one; its PEM artifact is named after `name`.
AddOrUpdateCertAndKey(name, cert, key, ca) ==
    [ZeroCert EXCEPT !.Certificate = cert, !.Key = key, !.CA = ca,
                     !.PemFileName = DefaultSSLDirectory \o <<"/">> \o name \o <<".pem">>]

\* ssl.AddCertAuth(name, ca): the auth-only record of a CA.
AddCertAuth(name, ca) ==
    [ZeroCert EXCEPT !.CA = ca,
                     !.PemFileName = DefaultSSLDirectory \o <<"/ca-">> \o name \o <<".pem">>]

\* SSLCert.Equal: content equality, the raw certificate bytes compared.
Equal(s1, s2) == s1.Certificate = s2.Certificate

IsTLS(s) == s.Certificate # Nil /\ s.Key # Nil
IsAuthOnly(s) == s.Certificate = Nil /\ s.Key = Nil /\ s.CA # Nil

\* The certificate content a record was derived from.
Content(s) == IF s.Certificate # Nil THEN s.Certificate ELSE s.CA

Failure(msg) == [err |-> msg, cert |-> ZeroCert]
Success(s) == [err |-> "", cert |-> s]

PemError == "unexpected error creating pem file"

\* A variant that does not check the key entry for nil.
getPemCertificate_NoKeyCheck(secretName, secret, sslOk) ==
    LET okcert == secret.crt # Absent
        okkey == secret.key # Absent
        cert == IF okcert THEN secret.crt ELSE Nil
        key == IF okkey THEN secret.key ELSE Nil
        ca == IF secret.ca = Absent THEN Nil ELSE secret.ca
        nsSecName == ReplaceSlash(secretName)
        named(s) == [s EXCEPT !.Name = SecretName(secretName),
                              !.Namespace = SecretNamespace(secretName)]
    IN  IF ~secret.found THEN Failure("error retrieving secret")
        ELSE IF okcert /\ okkey
        THEN IF cert = Nil THEN Failure("secret has no 'tls.crt'")
             ELSE IF ~sslOk THEN Failure(PemError)
             ELSE Success(named(AddOrUpdateCertAndKey(nsSecName, cert, key, ca)))
        ELSE IF ca # Nil
        THEN IF ~sslOk THEN Failure(PemError)
             ELSE Success(named(AddCertAuth(nsSecName, ca)))
        ELSE Failure("no keypair or CA cert could be found")

\* A variant that looks at ca.crt before the keypair.
getPemCertificate_CAFirst(secretName, secret, sslOk) ==
    LET okcert == secret.crt # Absent
        okkey == secret.key # Absent
        cert == IF okcert THEN secret.crt ELSE Nil
        key == IF okkey THEN secret.key ELSE Nil
        ca == IF secret.ca = Absent THEN Nil ELSE secret.ca
        nsSecName == ReplaceSlash(secretName)
        named(s) == [s EXCEPT !.Name = SecretName(secretName),
                              !.Namespace = SecretNamespace(secretName)]
    IN  IF ~secret.found THEN Failure("error retrieving secret")
        ELSE IF ca # Nil
        THEN IF ~sslOk THEN Failure(PemError)
             ELSE Success(named(AddCertAuth(nsSecName, ca)))
        ELSE IF okcert /\ okkey
        THEN IF cert = Nil THEN Failure("secret has no 'tls.crt'")
             ELSE IF key = Nil THEN Failure("secret has no 'tls.key'")
             ELSE IF ~sslOk THEN Failure(PemError)
             ELSE Success(named(AddOrUpdateCertAndKey(nsSecName, cert, key, ca)))
        ELSE Failure("no keypair or CA cert could be found")

\* A variant that names the record after the normalised identifier.
getPemCertificate_NormalisedName(secretName, secret, sslOk) ==
    LET okcert == secret.crt # Absent
        okkey == secret.key # Absent
        cert == IF okcert THEN secret.crt ELSE Nil
        key == IF okkey THEN secret.key ELSE Nil
        ca == IF secret.ca = Absent THEN Nil ELSE secret.ca
        nsSecName == ReplaceSlash(secretName)
        named(s) == [s EXCEPT !.Name = nsSecName,
                              !.Namespace = SecretNamespace(secretName)]
    IN  IF ~secret.found THEN Failure("error retrieving secret")
        ELSE IF okcert /\ okkey
        THEN IF cert = Nil THEN Failure("secret has no 'tls.crt'")
             ELSE IF key = Nil THEN Failure("secret has no 'tls.key'")
             ELSE IF ~sslOk THEN Failure(PemError)
             ELSE Success(named(AddOrUpdateCertAndKey(nsSecName, cert, key, ca)))
        ELSE IF ca # Nil
        THEN IF ~sslOk THEN Failure(PemError)
             ELSE Success(named(AddCertAuth(nsSecName, ca)))
        ELSE Failure("no keypair or CA cert could be found")

\* getPemCertificate(secretName), given the lister's answer and whether the
\* ssl package manages to write the PEM artifact.
getPemCertificate(secretName, secret, sslOk) ==
    LET okcert == secret.crt # Absent
        okkey == secret.key # Absent
        cert == IF okcert THEN secret.crt ELSE Nil
        key == IF okkey THEN secret.key ELSE Nil
        ca == IF secret.ca = Absent THEN Nil ELSE secret.ca
        nsSecName == ReplaceSlash(secretName)
        named(s) == [s EXCEPT !.Name = SecretName(secretName),
                              !.Namespace = SecretNamespace(secretName)]
    IN  IF ~secret.found THEN Failure("error retrieving secret")
        ELSE IF okcert /\ okkey
        THEN IF cert = Nil THEN Failure("secret has no 'tls.crt'")
             ELSE IF key = Nil THEN Failure("secret has no 'tls.key'")
             ELSE IF ~sslOk THEN Failure(PemError)
             ELSE Success(named(AddOrUpdateCertAndKey(nsSecName, cert, key, ca)))
        ELSE IF ca # Nil
        THEN IF ~sslOk THEN Failure(PemError)
             ELSE Success(named(AddCertAuth(nsSecName, ca)))
        ELSE Failure("no keypair or CA cert could be found")

\* ------------------------------------------------------------------------
\* Certificate path: state
\* ------------------------------------------------------------------------

VARIABLES
    store,      \* sslCertTracker: identifier -> SSLCert, for the identifiers held
    last,       \* the last handler call: what it read, derived, did and enqueued
    computed    \* identifiers for which the full chain of TrackedCert has been computed

certVars == <<store, last, computed>>

\* The certificate content whose chain computations are remembered.
TrackedCert == <<"crt", 1>>

\* The record of a call. muts counts the sslCertTracker.Add/Update calls it made,
\* sigs the syncQueue.Enqueue calls, done the identifiers whose chain it computed and
\* again those of them whose chain, for the same content, had been computed before.
\* prior says what the call before it was: "changed"
\* or "idle" for a syncSecret of the same identifier that read the same secret and
\* did or did not change the store, "other" for anything else.
\* failed holds the identifiers whose chain completion a sweep tried and gave up;
\* refs the identifiers the ingresses of a checkMissingSecrets run refer to, and
\* calls the syncSecret calls that run made, in order, each with its result.
NoCall ==
    [op |-> "none", key |-> <<>>, secret |-> NoLookup, err |-> "", cert |-> ZeroCert,
     result |-> "none", muts |-> 0, sigs |-> 0, prior |-> "other",
     done |-> {}, again |-> {}, failed |-> {}, refs |-> {}, calls |-> <<>>]

CertInit ==
    /\ store = <<>>
    /\ last = NoCall
    /\ computed = {}

\* sslCertTracker.Add / Update: the record under `key` is replaced whole.
Put(st, key, cert) ==
    [k \in DOMAIN st \cup {key} |-> IF k = key THEN cert ELSE st[k]]

\* A variant that stores whatever getPemCertificate returned, its error ignored.
syncStore_NoReturn(st, key, got) ==
    IF key \in DOMAIN st
    THEN IF Equal(st[key], got.cert)
         THEN [store |-> st, result |-> "unchanged", muts |-> 0, sigs |-> 0]
         ELSE [store |-> Put(st, key, got.cert), result |-> "updated", muts |-> 1, sigs |-> 1]
    ELSE [store |-> Put(st, key, got.cert), result |-> "added", muts |-> 1, sigs |-> 1]

\* A variant that updates an existing record without comparing it.
syncStore_NoEqual(st, key, got) ==
    IF got.err # ""
    THEN [store |-> st, result |-> "error", muts |-> 0, sigs |-> 0]
    ELSE IF key \in DOMAIN st
    THEN [store |-> Put(st, key, got.cert), result |-> "updated", muts |-> 1, sigs |-> 1]
    ELSE [store |-> Put(st, key, got.cert), result |-> "added", muts |-> 1, sigs |-> 1]

\* A variant whose update of a held record enqueues nothing.
syncStore_SilentUpdate(st, key, got) ==
    IF got.err # ""
    THEN [store |-> st, result |-> "error", muts |-> 0, sigs |-> 0]
    ELSE IF key \in DOMAIN st
    THEN IF Equal(st[key], got.cert)
         THEN [store |-> st, result |-> "unchanged", muts |-> 0, sigs |-> 0]
         ELSE [store |-> Put(st, key, got.cert), result |-> "updated", muts |-> 1, sigs |-> 0]
    ELSE [store |-> Put(st, key, got.cert), result |-> "added", muts |-> 1, sigs |-> 1]

\* syncSecret after getPemCertificate: the store it leaves, and its Add/Update and
\* Enqueue calls.
syncStore(st, key, got) ==
    IF got.err # ""
    THEN [store |-> st, result |-> "error", muts |-> 0, sigs |-> 0]
    ELSE IF key \in DOMAIN st
    THEN IF Equal(st[key], got.cert)
         THEN [store |-> st, result |-> "unchanged", muts |-> 0, sigs |-> 0]
         ELSE [store |-> Put(st, key, got.cert), result |-> "updated", muts |-> 1, sigs |-> 1]
    ELSE [store |-> Put(st, key, got.cert), result |-> "added", muts |-> 1, sigs |-> 1]

\* syncSecret(key)
syncSecret(key, secret, sslOk) ==
    LET got == getPemCertificate(key, secret, sslOk)
        end == syncStore(store, key, got)
        prior == IF last.op = "sync" /\ last.key = key /\ last.secret = secret
                 THEN (IF last.muts > 0 \/ last.sigs > 0 THEN "changed" ELSE "idle")
                 ELSE "other"
    IN  /\ store' = end.store
        /\ last' = [NoCall EXCEPT !.op = "sync", !.key = key, !.secret = secret,
                                  !.err = got.err, !.cert = got.cert,
                                  !.result = end.result, !.muts = end.muts,
                                  !.sigs = end.sigs, !.prior = prior]
        /\ UNCHANGED computed

SyncSecret ==
    \E key \in Keys : \E secret \in LookupsOf(key), sslOk \in BOOLEAN :
        syncSecret(key, secret, sslOk)

\* fmt.Sprintf("%v/%v-%v-full-chain.pem", DefaultSSLDirectory, Namespace, Name)
FullChainPath(secret) ==
    DefaultSSLDirectory \o <<"/">> \o secret.Namespace \o <<"-">> \o secret.Name
        \o <<"-full-chain.pem">>

\* mergo.MergeWithOverwrite(dst, src): every non-empty field of src overwrites dst's.
MergeWithOverwrite(dst, src) ==
    [f \in DOMAIN dst |-> IF src[f] # ZeroCert[f] THEN src[f] ELSE dst[f]]

\* How one record's completion can end: ssl.FullChainCert fails, ioutil.WriteFile
\* fails, mergo fails, or all three succeed.
ChainOutcomes == {"ok", "chainErr", "writeErr", "mergeErr"}

\* A variant that passes over a record once its PEM artifact is there, its chain
\* completed or not.
sweepOne_SkipIncomplete(state, secretName, outcome) ==
    LET secret == state.store[secretName]
        dst == [MergeWithOverwrite(ZeroCert, secret)
                    EXCEPT !.FullChainPemFileName = FullChainPath(secret)]
    IN  IF secret.PemFileName # NoPath THEN state
        ELSE IF outcome # "ok" THEN [state EXCEPT !.failed = @ \cup {secretName}]
        ELSE [store |-> Put(state.store, secretName, dst),
              computed |-> state.computed,
              done |-> state.done \cup {secretName},
              again |-> state.again,
              failed |-> state.failed]

\* A variant of the iteration that does not skip the records already completed.
sweepOne_NoSkip(state, secretName, outcome) ==
    LET secret == state.store[secretName]
        dst == [MergeWithOverwrite(ZeroCert, secret)
                    EXCEPT !.FullChainPemFileName = FullChainPath(secret)]
    IN  IF outcome # "ok" THEN state
        ELSE [store |-> Put(state.store, secretName, dst),
              computed |-> state.computed,
              done |-> state.done \cup {secretName},
              again |-> state.again,
              failed |-> state.failed]

\* A variant that goes on to update the record after ioutil.WriteFile has failed.
sweepOne_IgnoreWriteErr(state, secretName, outcome) ==
    LET secret == state.store[secretName]
        dst == [MergeWithOverwrite(ZeroCert, secret)
                    EXCEPT !.FullChainPemFileName = FullChainPath(secret)]
    IN  IF secret.FullChainPemFileName # NoPath THEN state
        ELSE IF outcome \in {"chainErr", "mergeErr"}
        THEN [state EXCEPT !.failed = @ \cup {secretName}]
        ELSE [store |-> Put(state.store, secretName, dst),
              computed |-> state.computed,
              done |-> state.done \cup {secretName},
              again |-> state.again,
              failed |-> IF outcome = "ok" THEN state.failed
                         ELSE state.failed \cup {secretName}]

\* One iteration of checkSSLChainIssues' loop, for secretName.
sweepOne(state, secretName, outcome) ==
    LET secret == state.store[secretName]
        dst == [MergeWithOverwrite(ZeroCert, secret)
                    EXCEPT !.FullChainPemFileName = FullChainPath(secret)]
        tracked == Content(secret) = TrackedCert
    IN  IF secret.FullChainPemFileName # NoPath THEN state
        ELSE IF outcome # "ok" THEN [state EXCEPT !.failed = @ \cup {secretName}]
        ELSE [store |-> Put(state.store, secretName, dst),
              computed |-> IF tracked THEN state.computed \cup {secretName}
                           ELSE state.computed,
              done |-> state.done \cup {secretName},
              again |-> IF tracked /\ secretName \in state.computed
                        THEN state.again \cup {secretName} ELSE state.again,
              failed |-> state.failed]

\* The loop over sslCertTracker.ListKeys(), in the order the store lists them.
RECURSIVE sweepLoop(_, _, _)
sweepLoop(state, order, outcomes) ==
    IF order = <<>> THEN state
    ELSE sweepLoop(sweepOne(state, Head(order), outcomes[Head(order)]),
                   Tail(order), outcomes)

\* The orders in which ListKeys can list the identifiers S.
Orders(S) ==
    {o \in [1..Cardinality(S) -> S] : \A i, j \in DOMAIN o : i # j => o[i] # o[j]}

\* checkSSLChainIssues()
checkSSLChainIssues(order, outcomes) ==
    LET end == sweepLoop([store |-> store, computed |-> computed,
                          done |-> {}, again |-> {}, failed |-> {}], order, outcomes)
    IN  /\ store' = end.store
        /\ computed' = end.computed
        /\ last' = [NoCall EXCEPT !.op = "sweep", !.result = "swept",
                                  !.muts = Cardinality(end.done),
                                  !.sigs = Cardinality(end.done),
                                  !.done = end.done, !.again = end.again,
                                  !.failed = end.failed]

CheckSSLChainIssues ==
    \E order \in Orders(DOMAIN store), outcomes \in [DOMAIN store -> ChainOutcomes] :
        checkSSLChainIssues(order, outcomes)

\* An empty string, where a secret name or an annotation value is expected.
EmptyName == <<>>

\* The ingresses the lister can hold. valid is what class.IsValid answers for the
\* ingress, TLS the secret names of Spec.TLS, auth the value of the annotation
\* auth-tls-secret (EmptyName: not set).
Ingresses ==
    {[valid |-> TRUE, Namespace |-> <<"ns">>, TLS |-> <<EmptyName>>, auth |-> K2],
     [valid |-> FALSE, Namespace |-> <<"ns">>, TLS |-> << <<"web", "-", "tls">> >>,
      auth |-> K2],
     [valid |-> TRUE, Namespace |-> <<"ns">>, TLS |-> << <<"web", "-", "tls">> >>,
      auth |-> K1]}

\* The longest list of ingresses drawn.
MaxIngresses == 2

IngressLists == UNION {[1..n -> Ingresses] : n \in 0..MaxIngresses}

\* fmt.Sprintf("%v/%v", ing.Namespace, tls.SecretName)
TLSKey(ing, name) == ing.Namespace \o <<"/">> \o name

\* The syncSecret(key) call of checkMissingSecrets: answers[key] is the lister's
\* answer for the secret.
reconcileSync(state, key, answers) ==
    LET got == getPemCertificate(key, answers[key], TRUE)
        end == syncStore(state.store, key, got)
    IN  [store |-> end.store,
         calls |-> Append(state.calls, [key |-> key, result |-> end.result]),
         muts |-> state.muts + end.muts,
         sigs |-> state.sigs + end.sigs]

\* A variant that synchronizes every identifier referred to, held or not.
checkOne_Always(state, key, answers) == reconcileSync(state, key, answers)

\* if _, ok := ic.sslCertTracker.Get(key); !ok { ic.syncSecret(key) }
checkOne(state, key, answers) ==
    IF key \in DOMAIN state.store THEN state ELSE reconcileSync(state, key, answers)

\* The loop over ing.Spec.TLS.
RECURSIVE tlsLoop(_, _, _, _)
tlsLoop(state, ing, tls, answers) ==
    IF tls = <<>> THEN state
    ELSE tlsLoop(IF Head(tls) = EmptyName THEN state
                 ELSE checkOne(state, TLSKey(ing, Head(tls)), answers),
                 ing, Tail(tls), answers)

\* One iteration of checkMissingSecrets' loop, for the ingress ing.
reconcileOne(state, ing, answers) ==
    IF ~ing.valid THEN state
    ELSE LET afterTLS == tlsLoop(state, ing, ing.TLS, answers)
         IN  IF ing.auth = EmptyName THEN afterTLS
             ELSE checkOne(afterTLS, ing.auth, answers)

\* The loop over ic.listers.Ingress.List().
RECURSIVE ingressLoop(_, _, _)
ingressLoop(state, ings, answers) ==
    IF ings = <<>> THEN state
    ELSE ingressLoop(reconcileOne(state, Head(ings), answers), Tail(ings), answers)

\* The identifiers a list of ingresses refers to: namespace/secretName for a TLS
\* entry with a secret name, and the auth-tls-secret annotation, of the ingresses
\* of the valid class.
Refs(ings) ==
    {k \in Keys :
        \E i \in DOMAIN ings :
            /\ ings[i].valid
            /\ \/ (ings[i].auth # EmptyName /\ k = ings[i].auth)
               \/ \E j \in DOMAIN ings[i].TLS :
                     /\ ings[i].TLS[j] # EmptyName
                     /\ k = ings[i].Namespace \o <<"/">> \o ings[i].TLS[j]}

\* checkMissingSecrets()
checkMissingSecrets(ings, answers) ==
    LET end == ingressLoop([store |-> store, calls |-> <<>>, muts |-> 0, sigs |-> 0],
                           ings, answers)
    IN  /\ store' = end.store
        /\ last' = [NoCall EXCEPT !.op = "reconcile", !.result = "reconciled",
                                  !.muts = end.muts, !.sigs = end.sigs,
                                  !.refs = Refs(ings), !.calls = end.calls]
        /\ UNCHANGED computed

CheckMissingSecrets ==
    \E ings \in IngressLists, answers \in [Keys -> KeypairLookups] :
        checkMissingSecrets(ings, answers)

\* ------------------------------------------------------------------------
\* Certificate path: the handlers as concurrent goroutines
\* ------------------------------------------------------------------------

\* syncSecret runs for a watch event and for checkMissingSecrets, and
\* checkSSLChainIssues on its own timer. Each call of sslCertTracker (Get, Add,
\* Update, ListKeys) is atomic; nothing holds the store between two of them.

VARIABLES
    syncer,     \* the syncSecret call of each caller: its position and locals
    sweeper,    \* the checkSSLChainIssues run: its position and locals
    latest      \* identifier -> the certificate content syncSecret stored last

concVars == <<syncer, sweeper, latest>>

\* Who calls syncSecret: the secret event handler, and checkMissingSecrets.
Callers == {"event", "missing"}

\* The secrets drawn here: none, or a keypair without CA.
RaceLookups ==
    {l \in Lookups : ~l.found \/ ((l.crt \in CertBytes /\ l.key \in KeyBytes) /\ l.ca = Absent)}

IdleSync ==
    [pc |-> "idle", key |-> <<>>, err |-> "", cert |-> ZeroCert, exists |-> FALSE,
     muts |-> 0, sigs |-> 0]

IdleSweep == [pc |-> "idle", todo |-> <<>>, secretName |-> <<>>, secret |-> ZeroCert]

ConcInit ==
    /\ syncer = [c \in Callers |-> IdleSync]
    /\ sweeper = IdleSweep
    /\ latest = <<>>

\* syncSecret, lines 43-49: getPemCertificate, and the return on its error.
\* checkMissingSecrets calls only for an identifier it has just found missing.
SyncFetch(c) ==
    /\ syncer[c].pc = "idle"
    /\ \E key \in Keys, secret \in RaceLookups :
          /\ c = "missing" => key \notin DOMAIN store
          /\ LET got == getPemCertificate(key, secret, TRUE)
             IN  syncer' = [syncer EXCEPT ![c] =
                     [IdleSync EXCEPT !.pc = IF got.err # "" THEN "done" ELSE "fetched",
                                      !.key = key, !.err = got.err, !.cert = got.cert]]
    /\ UNCHANGED <<store, sweeper, latest>>

\* syncSecret, lines 52-58: sslCertTracker.Get, and the return when the record held
\* equals the one derived.
SyncGet(c) ==
    /\ syncer[c].pc = "fetched"
    /\ LET exists == syncer[c].key \in DOMAIN store
       IN  syncer' = [syncer EXCEPT ![c] =
               IF exists /\ Equal(store[syncer[c].key], syncer[c].cert)
               THEN [@ EXCEPT !.pc = "done", !.exists = TRUE]
               ELSE [@ EXCEPT !.pc = "put", !.exists = exists]]
    /\ UNCHANGED <<store, sweeper, latest>>

\* syncSecret, lines 59-71: Update or Add, and the Enqueue that follows.
SyncPut(c) ==
    /\ syncer[c].pc = "put"
    /\ store' = Put(store, syncer[c].key, syncer[c].cert)
    /\ latest' = Put(latest, syncer[c].key, Content(syncer[c].cert))
    /\ syncer' = [syncer EXCEPT ![c] = [@ EXCEPT !.pc = "done", !.muts = 1, !.sigs = 1]]
    /\ UNCHANGED sweeper

\* checkSSLChainIssues, line 131: ListKeys.
SweepList ==
    /\ sweeper.pc = "idle"
    /\ \E order \in Orders(DOMAIN store) :
          sweeper' = [IdleSweep EXCEPT !.pc = "loop", !.todo = order]
    /\ UNCHANGED <<store, syncer, latest>>

\* checkSSLChainIssues, lines 131-138: the next identifier, its record as Get
\* returns it, and the skip of a record that has its full chain.
SweepGet ==
    /\ sweeper.pc = "loop"
    /\ IF sweeper.todo = <<>>
       THEN sweeper' = [IdleSweep EXCEPT !.pc = "done"]
       ELSE LET secretName == Head(sweeper.todo)
                secret == store[secretName]
            IN  sweeper' =
                    IF secret.FullChainPemFileName # NoPath
                    THEN [sweeper EXCEPT !.todo = Tail(@)]
                    ELSE [sweeper EXCEPT !.pc = "have", !.todo = Tail(@),
                                         !.secretName = secretName, !.secret = secret]
    /\ UNCHANGED <<store, syncer, latest>>

\* checkSSLChainIssues, lines 140-167: the chain of the record read, its file, the
\* copy with the full-chain path, Update and Enqueue; or `continue` on a failure.
SweepUpdate ==
    /\ sweeper.pc = "have"
    /\ \E outcome \in ChainOutcomes :
          LET dst == [MergeWithOverwrite(ZeroCert, sweeper.secret)
                          EXCEPT !.FullChainPemFileName = FullChainPath(sweeper.secret)]
          IN  store' = IF outcome = "ok" THEN Put(store, sweeper.secretName, dst)
                       ELSE store
    /\ sweeper' = [sweeper EXCEPT !.pc = "loop", !.secretName = <<>>,
                                  !.secret = ZeroCert]
    /\ UNCHANGED <<syncer, latest>>

\* ------------------------------------------------------------------------
\* Certificate path: the sweep on its timer
\* ------------------------------------------------------------------------

\* checkSSLChainIssues runs again and again. For a time secrets change and chain
\* resolution and file writes may fail; then the secrets stay as they are and both
\* succeed.

VARIABLES
    settled,    \* the secrets no longer change, resolution and writes succeed
    everFailed  \* the identifiers on whose completion some sweep has failed

liveVars == <<settled, everFailed>>

LiveInit ==
    /\ settled = FALSE
    /\ everFailed = {}

\* A secret event, while secrets still change.
LiveSync ==
    /\ ~settled
    /\ \E key \in Keys :
          \E secret \in {l \in LookupsOf(key) \cap RaceLookups : l.found} :
              syncSecret(key, secret, TRUE)
    /\ UNCHANGED liveVars

\* From now on nothing changes the secrets and nothing fails.
Settle ==
    /\ ~settled
    /\ settled' = TRUE
    /\ UNCHANGED <<certVars, everFailed>>

\* One run of checkSSLChainIssues.
LiveSweep ==
    /\ \E order \in Orders(DOMAIN store),
          outcomes \in [DOMAIN store -> IF settled THEN {"ok"} ELSE ChainOutcomes] :
          checkSSLChainIssues(order, outcomes)
    /\ everFailed' = everFailed \cup last'.failed
    /\ UNCHANGED settled

\* ------------------------------------------------------------------------
\* Request-time gate: values
\* ------------------------------------------------------------------------

\* Lua nil, where a string is expected.
LuaNil == "nil"
\* Lua nil, where a header or cookie value (a token sequence) is expected.
NoValue == <<>>

\* HTTP statuses the handlers set.
HTTP_UNAUTHORIZED == 401
HTTP_FORBIDDEN == 403

\* What an Authorization header is made of: the word Bearer, a whitespace
\* character, a run of other characters.
Tokens == {"Bearer", " ", "t1"}

\* The longest Authorization header drawn, in tokens.
MaxHeaderLen == 3

HeaderValues == UNION {[1..n -> Tokens] : n \in 1..MaxHeaderLen}
CookieValues == {<<"t2">>}

\* A request: its Authorization header and its three cookies, cfc-acs-info-cookie,
\* cfc-acs-auth-cookie and cfc-access-token-cookie (NoValue: not sent).
Requests ==
    [auth : HeaderValues \cup {NoValue},
     infoCookie : CookieValues \cup {NoValue},
     authCookie : CookieValues \cup {NoValue},
     accessCookie : CookieValues \cup {NoValue}]

NoRequest ==
    [auth |-> NoValue, infoCookie |-> NoValue, authCookie |-> NoValue,
     accessCookie |-> NoValue]

\* What httpc:request_uri can give back: no response (a transport error), a
\* response without body, with an empty body, with a body that is no JSON, with a
\* JSON scalar, or with a JSON object holding the field (sub, decision) or not.
NoReply == [kind |-> "none", field |-> LuaNil]
IdpReplies ==
    [kind : {"fail", "nobody", "empty", "malformed", "scalar"}, field : {LuaNil}]
    \cup [kind : {"object"}, field : {LuaNil, "u1"}]
PdpReplies ==
    [kind : {"fail", "nobody", "empty", "malformed", "scalar"}, field : {LuaNil}]
    \cup [kind : {"object"}, field : {LuaNil, "Permit", "Deny", "Indeterminate"}]

\* cjson.decode(body).field: decoding raises on a body that is no JSON, indexing
\* raises on a number; a field the object lacks is nil.
DecodeField(reply) ==
    IF reply.kind \in {"malformed", "scalar"}
    THEN [raised |-> TRUE, value |-> LuaNil]
    ELSE [raised |-> FALSE, value |-> reply.field]

\* The length of the run of whitespace of h that starts at position i.
RECURSIVE Spaces(_, _)
Spaces(h, i) == IF i <= Len(h) /\ h[i] = " " THEN 1 + Spaces(h, i + 1) ELSE 0

\* The capture of the pattern "Bearer%s+(.+)" matched at position i of h, NoValue
\* when it does not match there. %s+ takes the whole run of whitespace and gives one
\* character back when nothing is left for (.+).
CaptureAt(h, i) ==
    IF h[i] # "Bearer" THEN NoValue
    ELSE LET n == Spaces(h, i + 1)
         IN  IF n = 0 THEN NoValue
             ELSE IF i + n < Len(h) THEN SubSeq(h, i + n + 1, Len(h))
             ELSE IF n >= 2 THEN <<" ">>
             ELSE NoValue

\* _, _, token = string.find(auth_header, "Bearer%s+(.+)"): the first match.
FindBearer(h) ==
    LET hits == {i \in 1..Len(h) : CaptureAt(h, i) # NoValue}
    IN  IF hits = {} THEN NoValue
        ELSE CaptureAt(h, CHOOSE i \in hits : \A j \in hits : i <= j)

\* A variant of the extraction that falls back to the cookie when the header gives
\* no token.
ExtractToken_CookieFallback(auth_header, cookie) ==
    IF auth_header # NoValue /\ FindBearer(auth_header) # NoValue
    THEN [token |-> FindBearer(auth_header), cookieRead |-> FALSE, header |-> auth_header]
    ELSE [token |-> cookie, cookieRead |-> TRUE,
          header |-> IF cookie # NoValue THEN <<"Bearer", " ">> \o cookie ELSE auth_header]

\* The token extraction both validate_id_token_or_exit and
\* validate_access_token_or_exit start with: the token, whether the cookie was looked
\* up, and the Authorization header the request carries afterwards.
ExtractToken(auth_header, cookie) ==
    IF auth_header # NoValue
    THEN [token |-> FindBearer(auth_header), cookieRead |-> FALSE, header |-> auth_header]
    ELSE [token |-> cookie, cookieRead |-> TRUE,
          header |-> IF cookie # NoValue THEN <<"Bearer", " ">> \o cookie ELSE auth_header]

\* ------------------------------------------------------------------------
\* Request-time gate: state
\* ------------------------------------------------------------------------

VARIABLES
    body401,    \* BODY_401_ERROR_RESPONSE
    phase,      \* "unloaded" | "idle" | "accepted" | "exited"
    req,        \* the request as received
    hdr,        \* the request's Authorization header now (ngx.req.set_header sets it)
    gate        \* the last handler run on the request

gateVars == <<body401, phase, req, hdr, gate>>

\* The record of a handler run: the Authorization header it found (auth), the token
\* it extracted, whether it looked the cookie
\* up, the outbound call it made (called, sent: the credential it passed on), the
\* reply, and how it ended: "exit" (ngx.exit with status and body), "return" (with
\* ret) or "error" (a Lua error nothing catches).
NoRun ==
    [fn |-> "none", auth |-> NoValue, token |-> NoValue, cookieRead |-> FALSE,
     called |-> FALSE,
     sent |-> NoValue, reply |-> NoReply, outcome |-> "none", status |-> 0,
     body |-> <<>>, ret |-> LuaNil]

GateInit ==
    /\ body401 = LuaNil
    /\ phase = "unloaded"
    /\ req = NoRequest
    /\ hdr = NoValue
    /\ gate = NoRun

\* ngx.say(arg): what goes into the response body. A nil argument is written as
\* the text nil; a newline follows the argument.
ngx_say(arg) == <<IF arg = LuaNil THEN "nil" ELSE arg, "\n">>

\* exit_401()
exit_401(run) ==
    [run EXCEPT !.outcome = "exit", !.status = HTTP_UNAUTHORIZED,
                !.body = ngx_say(body401)]

\* pdp_exit_403()
pdp_exit_403(run) ==
    [run EXCEPT !.outcome = "exit", !.status = HTTP_FORBIDDEN,
                !.body = ngx_say("Error 403 : Access Forbidden")]

\* Module initialisation: the 401 page is read when AUTH_ERROR_PAGE_DIR_PATH is set;
\* a page that cannot be read, or is empty, becomes ''.
LoadModule ==
    /\ phase = "unloaded"
    /\ \E dirSet \in BOOLEAN, content \in {LuaNil, "", "page401"} :
          body401' = IF ~dirSet THEN LuaNil
                     ELSE IF content = LuaNil \/ content = "" THEN ""
                     ELSE content
    /\ phase' = "idle"
    /\ UNCHANGED <<req, hdr, gate>>

\* A request arrives.
Receive ==
    /\ phase = "idle"
    /\ \E r \in Requests : req' = r /\ hdr' = r.auth
    /\ phase' = "accepted"
    /\ gate' = NoRun
    /\ UNCHANGED body401

\* The request is done with: passed on upstream, or answered by the exit.
Finish ==
    /\ phase \in {"accepted", "exited"}
    /\ phase' = "idle"
    /\ req' = NoRequest
    /\ hdr' = NoValue
    /\ gate' = NoRun
    /\ UNCHANGED body401

\* What a run leaves behind.
Ran(run, header) ==
    /\ gate' = run
    /\ hdr' = header
    /\ phase' = IF run.outcome = "return" THEN "accepted" ELSE "exited"
    /\ UNCHANGED <<body401, req>>

\* validate_id_token_or_exit()
validate_id_token_or_exit(auth_header, cookie) ==
    LET ext == ExtractToken(auth_header, cookie)
        run == [NoRun EXCEPT !.fn = "id", !.auth = auth_header, !.token = ext.token,
                             !.cookieRead = ext.cookieRead]
    IN  IF ext.token = NoValue THEN exit_401(run)
        ELSE [run EXCEPT !.outcome = "return"]

ValidateIdToken ==
    /\ phase = "accepted"
    /\ Ran(validate_id_token_or_exit(hdr, req.infoCookie),
           ExtractToken(hdr, req.infoCookie).header)

\* validate_access_token_or_exit()
validate_access_token_or_exit(auth_header, cookie, res) ==
    LET ext == ExtractToken(auth_header, cookie)
        run == [NoRun EXCEPT !.fn = "access", !.auth = auth_header, !.token = ext.token,
                             !.cookieRead = ext.cookieRead]
        asked == [run EXCEPT !.called = TRUE, !.sent = ext.token, !.reply = res]
        data == DecodeField(res)
    IN  IF ext.token = NoValue THEN exit_401(run)
        ELSE IF res.kind = "fail" THEN exit_401(asked)
        ELSE IF res.kind \in {"nobody", "empty"} THEN exit_401(asked)
        ELSE IF data.raised THEN [asked EXCEPT !.outcome = "error"]
        ELSE [asked EXCEPT !.outcome = "return", !.ret = data.value]

ValidateAccessToken ==
    /\ phase = "accepted"
    /\ \E res \in IdpReplies :
          Ran(validate_access_token_or_exit(hdr, req.authCookie, res),
              ExtractToken(hdr, req.authCookie).header)

\* A variant that looks for the credential only after it has asked the
\* policy-decision point.
validate_policy_or_exit_LateCheck(auth_header, token, res) ==
    LET auth_token == IF auth_header = NoValue /\ token # NoValue
                      THEN <<"bearer", " ">> \o token
                      ELSE auth_header
        run == [NoRun EXCEPT !.fn = "policy", !.auth = auth_header, !.token = token,
                             !.cookieRead = TRUE]
        asked == [run EXCEPT !.called = TRUE, !.sent = auth_token, !.reply = res]
        data == DecodeField(res)
    IN  IF res.kind = "fail" THEN pdp_exit_403(asked)
        ELSE IF res.kind \in {"nobody", "empty"} THEN pdp_exit_403(asked)
        ELSE IF auth_header = NoValue /\ token = NoValue THEN pdp_exit_403(asked)
        ELSE IF data.raised THEN [asked EXCEPT !.outcome = "error"]
        ELSE IF data.value # "Permit" THEN pdp_exit_403(asked)
        ELSE [asked EXCEPT !.outcome = "return", !.ret = data.value]

\* A variant that denies on "Deny" instead of allowing on "Permit" only.
validate_policy_or_exit_DenyList(auth_header, token, res) ==
    LET auth_token == IF auth_header = NoValue /\ token # NoValue
                      THEN <<"bearer", " ">> \o token
                      ELSE auth_header
        run == [NoRun EXCEPT !.fn = "policy", !.auth = auth_header, !.token = token,
                             !.cookieRead = TRUE]
        asked == [run EXCEPT !.called = TRUE, !.sent = auth_token, !.reply = res]
        data == DecodeField(res)
    IN  IF auth_header = NoValue /\ token = NoValue THEN pdp_exit_403(run)
        ELSE IF res.kind = "fail" THEN pdp_exit_403(asked)
        ELSE IF res.kind \in {"nobody", "empty"} THEN pdp_exit_403(asked)
        ELSE IF data.raised THEN [asked EXCEPT !.outcome = "error"]
        ELSE IF data.value = "Deny" THEN pdp_exit_403(asked)
        ELSE [asked EXCEPT !.outcome = "return", !.ret = data.value]

\* validate_policy_or_exit()
validate_policy_or_exit(auth_header, token, res) ==
    LET auth_token == IF auth_header = NoValue /\ token # NoValue
                      THEN <<"bearer", " ">> \o token
                      ELSE auth_header
        run == [NoRun EXCEPT !.fn = "policy", !.auth = auth_header, !.token = token,
                             !.cookieRead = TRUE]
        asked == [run EXCEPT !.called = TRUE, !.sent = auth_token, !.reply = res]
        data == DecodeField(res)
    IN  IF auth_header = NoValue /\ token = NoValue THEN pdp_exit_403(run)
        ELSE IF res.kind = "fail" THEN pdp_exit_403(asked)
        ELSE IF res.kind \in {"nobody", "empty"} THEN pdp_exit_403(asked)
        ELSE IF data.raised THEN [asked EXCEPT !.outcome = "error"]
        ELSE IF data.value # "Permit" THEN pdp_exit_403(asked)
        ELSE [asked EXCEPT !.outcome = "return", !.ret = data.value]

ValidatePolicy ==
    /\ phase = "accepted"
    /\ \E res \in PdpReplies :
          Ran(validate_policy_or_exit(hdr, req.accessCookie, res), hdr)

\* ------------------------------------------------------------------------
\* Specifications
\* ------------------------------------------------------------------------

vars ==
    <<store, last, computed, syncer, sweeper, latest, settled, everFailed,
      body401, phase, req, hdr, gate>>

Init == CertInit /\ ConcInit /\ LiveInit /\ GateInit

\* The certificate path.
Next ==
    \/ SyncSecret /\ UNCHANGED <<concVars, liveVars, gateVars>>
    \/ CheckSSLChainIssues /\ UNCHANGED <<concVars, liveVars, gateVars>>

Spec == Init /\ [][Next]_vars

\* The certificate path with the periodic checkMissingSecrets.
ReconcileNext ==
    \/ SyncSecret /\ UNCHANGED <<concVars, liveVars, gateVars>>
    \/ CheckSSLChainIssues /\ UNCHANGED <<concVars, liveVars, gateVars>>
    \/ CheckMissingSecrets /\ UNCHANGED <<concVars, liveVars, gateVars>>

ReconcileSpec == Init /\ [][ReconcileNext]_vars

\* The certificate path, its handlers running concurrently.
ConcNext ==
    \/ \E c \in Callers : SyncFetch(c) /\ UNCHANGED <<last, computed, liveVars, gateVars>>
    \/ \E c \in Callers : SyncGet(c) /\ UNCHANGED <<last, computed, liveVars, gateVars>>
    \/ \E c \in Callers : SyncPut(c) /\ UNCHANGED <<last, computed, liveVars, gateVars>>
    \/ SweepList /\ UNCHANGED <<last, computed, liveVars, gateVars>>
    \/ SweepGet /\ UNCHANGED <<last, computed, liveVars, gateVars>>
    \/ SweepUpdate /\ UNCHANGED <<last, computed, liveVars, gateVars>>

ConcSpec == Init /\ [][ConcNext]_vars

\* The certificate path with the sweep on its timer: a sweep that would change
\* something is not put off for ever.
LiveNext ==
    \/ LiveSync /\ UNCHANGED <<concVars, gateVars>>
    \/ Settle /\ UNCHANGED <<concVars, gateVars>>
    \/ LiveSweep /\ UNCHANGED <<concVars, gateVars>>

LiveSpec ==
    Init /\ [][LiveNext]_vars /\ WF_vars(LiveSweep /\ UNCHANGED <<concVars, gateVars>>)

\* The request-time gate.
GateNext ==
    \/ LoadModule /\ UNCHANGED <<certVars, concVars, liveVars>>
    \/ Receive /\ UNCHANGED <<certVars, concVars, liveVars>>
    \/ ValidateIdToken /\ UNCHANGED <<certVars, concVars, liveVars>>
    \/ ValidateAccessToken /\ UNCHANGED <<certVars, concVars, liveVars>>
    \/ ValidatePolicy /\ UNCHANGED <<certVars, concVars, liveVars>>
    \/ Finish /\ UNCHANGED <<certVars, concVars, liveVars>>

GateSpec == Init /\ [][GateNext]_vars

\* ------------------------------------------------------------------------
\* Certificate path: properties
\* ------------------------------------------------------------------------

\* Which material a secret carries as bytes.
HasCrt(s) == s.crt \in CertBytes
HasKey(s) == s.key \in KeyBytes
HasCA(s) == s.ca \in CABytes

\* The call left the store as it was and enqueued nothing.
Untouched == store' = store /\ last'.muts = 0 /\ last'.sigs = 0

\* C3: syncSecret called twice in a row for one identifier, the secret unchanged,
\* changes the store at most once and enqueues at most one signal: a call that
\* follows one that changed the store changes nothing. And whenever the record held
\* for the identifier has the certificate bytes of the freshly derived one, the call
\* leaves the store as it is and enqueues nothing.
C3_SyncIdempotent ==
    [][last'.op = "sync" =>
          /\ last'.prior = "changed" => Untouched
          /\ (/\ last'.err = ""
              /\ last'.key \in DOMAIN store
              /\ store[last'.key].Certificate = last'.cert.Certificate) => Untouched]_certVars

C3_Witness ==
    /\ last.op = "sync"
    /\ last.prior = "changed"
    /\ last.err = ""
    /\ last.result = "unchanged"
    /\ last.key \in DOMAIN store

\* Exactly one of certificate and key is there as bytes.
Malformed(s) == s.found /\ (HasCrt(s) # HasKey(s))

\* C4 as stated: a secret with a certificate and no key, or a key and no certificate,
\* makes syncSecret fail and leave the store untouched, whatever its CA bytes.
C4_Original ==
    [][(last'.op = "sync" /\ Malformed(last'.secret)) =>
          (last'.err # "" /\ Untouched)]_certVars

\* C4 as amended: such a secret is rejected, the store untouched, when it carries no
\* CA bytes, and also when the entry without bytes is in the secret's data (as nil).
\* When that entry is not in the data and CA bytes are there, the secret counts as a
\* CA secret: an auth-only record is derived (unless its PEM cannot be written).
C4_MalformedKeypair ==
    [][(last'.op = "sync" /\ Malformed(last'.secret)) =>
          IF \/ ~HasCA(last'.secret)
             \/ (last'.secret.crt # Absent /\ last'.secret.key # Absent)
          THEN last'.err # "" /\ Untouched
          ELSE /\ last'.err \in {"", PemError}
               /\ last'.err = "" => IsAuthOnly(last'.cert)]_certVars

C4_Witness ==
    /\ last.op = "sync"
    /\ Malformed(last.secret)
    /\ ~HasCA(last.secret)
    /\ last.secret.key = Absent
    /\ last.err # ""
    /\ last.key \in DOMAIN store

\* C5 as stated: over any sequence of syncSecret calls and sweeps the chain of a
\* certificate content is computed at most once (here: that of TrackedCert, per
\* identifier).
C5_Original == last.op = "sweep" => last.again = {}

\* C5 as amended: the chain is computed at most once per stored record. A sweep
\* computes the chain of exactly the records whose full-chain path is empty and whose
\* completion succeeds, and leaves a record with a full-chain path as it is; a
\* full-chain path, once set, goes away only when syncSecret replaces the record by
\* one of another certificate, whose chain is then computed anew, even for a content
\* that was completed before.
C5_ChainOncePerRecord ==
    [][/\ last'.op = "sweep" =>
            /\ DOMAIN store' = DOMAIN store
            /\ \A k \in DOMAIN store :
                  /\ store[k].FullChainPemFileName # NoPath =>
                        (store'[k] = store[k] /\ k \notin last'.done)
                  /\ k \in last'.done =>
                        (/\ store[k].FullChainPemFileName = NoPath
                         /\ store'[k].FullChainPemFileName # NoPath)
       /\ \A k \in DOMAIN store :
             (/\ store[k].FullChainPemFileName # NoPath
              /\ store'[k].FullChainPemFileName # store[k].FullChainPemFileName) =>
                 (/\ last'.op = "sync"
                  /\ last'.key = k
                  /\ store'[k].Certificate # store[k].Certificate
                  /\ store'[k].FullChainPemFileName = NoPath)]_certVars

\* A sweep has completed one record and passed over one completed earlier.
C5_Witness ==
    /\ last.op = "sweep"
    /\ last.done # {}
    /\ \E k \in DOMAIN store :
          k \notin last.done /\ store[k].FullChainPemFileName # NoPath

\* The secret has no keypair and no CA bytes.
NoMaterial(s) == s.found /\ ~(HasCrt(s) /\ HasKey(s)) /\ ~HasCA(s)

\* C9: when the lister cannot find the secret, or the secret carries neither a
\* keypair nor CA bytes, syncSecret fails, leaves the store as it is and enqueues
\* nothing.
C9_FailureLeavesStore ==
    [][(last'.op = "sync" /\ (~last'.secret.found \/ NoMaterial(last'.secret))) =>
          (last'.err # "" /\ Untouched)]_certVars

C9_Witness ==
    /\ last.op = "sync"
    /\ last.secret.found
    /\ NoMaterial(last.secret)
    /\ last.err # ""
    /\ last.key \in DOMAIN store
    /\ last.muts = 0

\* The CA a derived record must carry for a secret.
CAOf(s) == IF HasCA(s) THEN s.ca ELSE Nil

\* C10 as stated: certificate and key (bytes) give a TLS record with the CA attached;
\* CA bytes alone give an auth-only record. (A failure to write the PEM artifact is
\* left aside.)
C10_Original ==
    (last.op = "sync" /\ last.secret.found /\ last.err # PemError) =>
        /\ (HasCrt(last.secret) /\ HasKey(last.secret)) =>
              (/\ last.err = ""
               /\ IsTLS(last.cert)
               /\ last.cert.CA = CAOf(last.secret))
        /\ (~HasCrt(last.secret) /\ ~HasKey(last.secret) /\ HasCA(last.secret)) =>
              (last.err = "" /\ IsAuthOnly(last.cert))

\* C10 as amended: the classification is a function of which entries the data holds
\* and which of them are nil. Both tls.crt and tls.key held: a TLS record of exactly
\* these bytes, the CA attached, or a rejection when either is nil, whatever the CA.
\* Otherwise, with CA bytes: an auth-only record carrying no certificate and no key.
\* Only a failure to write the PEM artifact stands in the way of a record.
C10_Classification ==
    (last.op = "sync" /\ last.secret.found) =>
        LET s == last.secret
            both == s.crt # Absent /\ s.key # Absent
        IN  /\ (both /\ HasCrt(s) /\ HasKey(s)) =>
                  (/\ last.err \in {"", PemError}
                   /\ last.err = "" =>
                         (/\ IsTLS(last.cert)
                          /\ last.cert.Certificate = s.crt
                          /\ last.cert.Key = s.key
                          /\ last.cert.CA = CAOf(s)))
            /\ (both /\ ~(HasCrt(s) /\ HasKey(s))) => last.err \notin {"", PemError}
            /\ (~both /\ HasCA(s)) =>
                  (/\ last.err \in {"", PemError}
                   /\ last.err = "" => (IsAuthOnly(last.cert) /\ last.cert.CA = s.ca))

\* A keypair with a CA has been classified as TLS, the CA attached.
C10_Witness ==
    /\ last.op = "sync"
    /\ HasCrt(last.secret) /\ HasKey(last.secret) /\ HasCA(last.secret)
    /\ last.err = ""
    /\ IsTLS(last.cert)
    /\ last.cert.CA = last.secret.ca
    /\ last.key \in DOMAIN store

\* The identifiers of the syncSecret calls of a checkMissingSecrets run.
Called(call) == {call.calls[i].key : i \in DOMAIN call.calls}

\* C11: checkMissingSecrets calls syncSecret for an identifier only if an ingress of
\* the valid class refers to it (a TLS entry with a secret name, as
\* namespace/secretName, or the annotation auth-tls-secret) and the store does not
\* hold it at that moment: it was not held when the run began and no earlier call of
\* the run has added it. An identifier the store holds, as after a successful
\* synchronization, gets no call at all; one referred to and not held gets one. The
\* run removes nothing and replaces nothing.
C11_OnlyAbsentSynced ==
    [][last'.op = "reconcile" =>
          /\ \A i \in DOMAIN last'.calls :
                /\ last'.calls[i].key \in last'.refs
                /\ last'.calls[i].key \notin DOMAIN store
                /\ \A j \in 1..(i - 1) :
                      last'.calls[j].key = last'.calls[i].key =>
                          last'.calls[j].result = "error"
          /\ \A k \in DOMAIN store : k \notin Called(last') /\ store'[k] = store[k]
          /\ \A k \in last'.refs : k \notin DOMAIN store => k \in Called(last')
          /\ DOMAIN store' = DOMAIN store \cup
                {k \in Called(last') :
                    \E i \in DOMAIN last'.calls :
                        last'.calls[i].key = k /\ last'.calls[i].result = "added"}
       ]_certVars

\* A run found one identifier held, left it alone, and synchronized the other.
C11_Witness ==
    /\ last.op = "reconcile"
    /\ last.refs = {K1, K2}
    /\ DOMAIN store = {K1, K2}
    /\ last.calls = <<[key |-> K2, result |-> "added"]>>

\* Scenario A: syncSecret of ns/web-tls, not held before, the secret carrying
\* certificate and key bytes the ssl package accepts. The store gains the one
\* record, a TLS record of these bytes with a base PEM path and no full-chain path,
\* whose Name is `name`; one Add, one signal.
ScenarioA(name) ==
    (/\ last'.op = "sync"
     /\ last'.key = K1
     /\ K1 \notin DOMAIN store
     /\ HasCrt(last'.secret) /\ HasKey(last'.secret)
     /\ last'.err # PemError) =>
        /\ last'.err = ""
        /\ DOMAIN store' = DOMAIN store \cup {K1}
        /\ \A k \in DOMAIN store : store'[k] = store[k]
        /\ IsTLS(store'[K1])
        /\ store'[K1].Certificate = last'.secret.crt
        /\ store'[K1].Key = last'.secret.key
        /\ store'[K1].Name = name
        /\ store'[K1].PemFileName # NoPath
        /\ store'[K1].FullChainPemFileName = NoPath
        /\ last'.result = "added"
        /\ last'.muts = 1
        /\ last'.sigs = 1

\* C13 as stated: the record gained is named ns-web-tls.
C13_Original == [][ScenarioA(<<"ns", "-", "web", "-", "tls">>)]_certVars

\* C13 as amended: the record gained carries the secret's own name and namespace,
\* web-tls and ns; ns-web-tls is the name of its base PEM artifact.
C13_ScenarioA ==
    [][/\ ScenarioA(<<"web", "-", "tls">>)
       /\ (last'.op = "sync" /\ last'.key = K1 /\ last'.result = "added") =>
             /\ store'[K1] = last'.cert
             /\ store'[K1].Namespace = <<"ns">>
             /\ IsTLS(store'[K1]) =>
                   store'[K1].PemFileName =
                       <<"ssl", "/", "ns", "-", "web", "-", "tls", ".pem">>
      ]_certVars

C13_Witness ==
    /\ last.op = "sync"
    /\ last.key = K1
    /\ last.result = "added"
    /\ HasCrt(last.secret) /\ HasKey(last.secret)
    /\ DOMAIN store = {K1}
    /\ store[K1].Name = <<"web", "-", "tls">>
    /\ store[K1].FullChainPemFileName = NoPath
    /\ last.sigs = 1

\* The identifiers whose record the step adds or replaces by another.
Changed == {k \in DOMAIN store' : k \notin DOMAIN store \/ store'[k] # store[k]}

\* C15: every call, be it syncSecret, checkSSLChainIssues or checkMissingSecrets,
\* enqueues as many signals as it makes Add/Update calls, and makes one Add/Update
\* call for each record it adds or replaces: no store change goes without its
\* signal and no signal is enqueued without a store change. The counts being equal
\* call by call, the totals over any sequence of calls are equal.
C15_SignalPerMutation ==
    [][/\ last'.sigs = last'.muts
       /\ last'.muts = Cardinality(Changed)
       /\ DOMAIN store \subseteq DOMAIN store']_certVars

\* A checkMissingSecrets run has added two records and enqueued two signals.
C15_Witness ==
    /\ last.op = "reconcile"
    /\ last.muts = 2
    /\ last.sigs = 2
    /\ Len(last.calls) = 2

\* C16: one checkSSLChainIssues sweep leaves a record whose chain resolution,
\* artifact write (or copy) fails exactly as it was, with no signal for it; replaces
\* a record whose completion succeeds by one equal to it in every field but the
\* full-chain path, which becomes <dir>/<namespace>-<name>-full-chain.pem; and
\* leaves a record that has a full-chain path unchanged. Every record is in one of
\* the three cases; one signal per completed record.
C16_SweepEffect ==
    [][last'.op = "sweep" =>
          /\ DOMAIN store' = DOMAIN store
          /\ last'.sigs = Cardinality(last'.done)
          /\ last'.done \cap last'.failed = {}
          /\ \A k \in DOMAIN store :
                /\ k \in last'.failed => store'[k] = store[k]
                /\ k \in last'.done =>
                      /\ store[k].FullChainPemFileName = NoPath
                      /\ store'[k] =
                            [store[k] EXCEPT !.FullChainPemFileName =
                                <<"ssl", "/", "ns", "-", "web", "-", "tls",
                                  "-full-chain.pem">>]
                /\ store[k].FullChainPemFileName # NoPath =>
                      (store'[k] = store[k] /\ k \notin last'.done \cup last'.failed)
                /\ store[k].FullChainPemFileName = NoPath =>
                      k \in last'.done \cup last'.failed]_certVars

\* A sweep has completed one record and failed on the other.
C16_Witness ==
    /\ last.op = "sweep"
    /\ last.done = {K1}
    /\ last.failed = {K2}
    /\ IsAuthOnly(store[K1])
    /\ store[K1].FullChainPemFileName # NoPath
    /\ store[K2].FullChainPemFileName = NoPath

\* C19 as stated: two distinct identifiers held in the store never have the same
\* normalised artifact name, nor their records the same full-chain path.
C19_Original ==
    \A k1, k2 \in DOMAIN store :
        k1 # k2 =>
            /\ ReplaceSlash(k1) # ReplaceSlash(k2)
            /\ FullChainPath(store[k1]) # FullChainPath(store[k2])

\* C20: once the secrets no longer change and chain resolution and file writes
\* succeed, every record held comes to have a full-chain path, the sweeps going on;
\* a failure of an earlier sweep on the record does not stand in the way.
C20_EventuallyComplete ==
    \A k \in Keys :
        (settled /\ k \in DOMAIN store) ~>
            (k \in DOMAIN store /\ store[k].FullChainPemFileName # NoPath)

\* A sweep has completed a record on which an earlier sweep had failed.
C20_Witness ==
    /\ settled
    /\ last.op = "sweep"
    /\ K1 \in last.done
    /\ K1 \in everFailed
    /\ store[K1].FullChainPemFileName # NoPath

\* ------------------------------------------------------------------------
\* Certificate path, concurrent: properties
\* ------------------------------------------------------------------------

\* Every call that was started has returned.
Quiet ==
    /\ sweeper.pc \in {"idle", "done"}
    /\ \A c \in Callers : syncer[c].pc \in {"idle", "done"}

\* C17 as stated: once a sweep and the syncSecret calls it ran along with have all
\* returned, every record held carries the certificate content syncSecret stored
\* last for its identifier: the sweep has not put back a copy of a record it read
\* before that content was stored.
C17_Original ==
    (Quiet /\ sweeper.pc = "done") =>
        \A k \in DOMAIN store : k \in DOMAIN latest /\ Content(store[k]) = latest[k]

\* C18 as stated: when the two callers have synchronized the same identifier, both
\* having read the same secret, the two calls together have made at most one
\* Add/Update and enqueued at most one signal.
C18_Original ==
    (/\ \A c \in Callers : syncer[c].pc = "done" /\ syncer[c].err = ""
     /\ syncer["event"].key = syncer["missing"].key
     /\ syncer["event"].cert = syncer["missing"].cert) =>
        /\ syncer["event"].muts + syncer["missing"].muts <= 1
        /\ syncer["event"].sigs + syncer["missing"].sigs <= 1

\* ------------------------------------------------------------------------
\* Request-time gate: properties
\* ------------------------------------------------------------------------

\* The run ended the request with the given status.
Denied(status) == gate.outcome = "exit" /\ gate.status = status /\ phase = "exited"

\* The policy-decision point answered with an object whose decision is Permit.
Permitted == gate.called /\ gate.reply.kind = "object" /\ gate.reply.field = "Permit"

\* C1: in validate_policy_or_exit a missing credential, a transport error, an absent
\* or empty body and a decision other than "Permit" all end in the 403 exit, and the
\* handler returns (the request goes on) only when the decision is "Permit".
C1_FailClosed ==
    gate.fn = "policy" =>
        /\ ~gate.called => Denied(HTTP_FORBIDDEN)
        /\ (gate.called /\ gate.reply.kind \in {"fail", "nobody", "empty"}) =>
              Denied(HTTP_FORBIDDEN)
        /\ (gate.called /\ gate.reply.kind = "object" /\ gate.reply.field # "Permit") =>
              Denied(HTTP_FORBIDDEN)
        /\ (gate.outcome = "return" \/ phase = "accepted") =>
              (Permitted /\ gate.ret = "Permit" /\ gate.status = 0)

C1_Witness ==
    /\ gate.fn = "policy"
    /\ gate.called
    /\ gate.reply.kind = "object"
    /\ gate.reply.field = "Indeterminate"
    /\ Denied(HTTP_FORBIDDEN)

\* C2 as stated: validate_access_token_or_exit ends in the 401 exit on a missing
\* token, a transport error, an empty body and a body (here: a JSON object) without
\* the field sub.
C2_Original ==
    gate.fn = "access" =>
        ((\/ gate.token = NoValue
          \/ gate.reply.kind \in {"fail", "nobody", "empty"}
          \/ (gate.reply.kind = "object" /\ gate.reply.field = LuaNil))
            => Denied(HTTP_UNAUTHORIZED))

\* The cookie the handler of the run looks up.
CookieOf(run) == IF run.fn = "id" THEN req.infoCookie ELSE req.authCookie

\* C6: in validate_id_token_or_exit and validate_access_token_or_exit a request that
\* carries an Authorization header never has its cookie looked up: the token is taken
\* from the header (what follows "Bearer" and whitespace), the header stays as it is,
\* and a header that gives no token ends in the 401 exit even when the cookie is
\* there. The cookie gives the token only when there is no Authorization header.
C6_HeaderPrecedence ==
    gate.fn \in {"id", "access"} =>
        /\ gate.auth # NoValue =>
              /\ ~gate.cookieRead
              /\ hdr = gate.auth
              /\ gate.token # NoValue =>
                    \E i \in 3..Len(gate.auth) :
                        /\ gate.token = SubSeq(gate.auth, i, Len(gate.auth))
                        /\ gate.auth[i - 1] = " "
                        /\ \E j \in 1..(i - 2) :
                              /\ gate.auth[j] = "Bearer"
                              /\ \A m \in (j + 1)..(i - 1) : gate.auth[m] = " "
              /\ gate.token = NoValue => Denied(HTTP_UNAUTHORIZED)
              /\ (/\ Len(gate.auth) >= 3
                  /\ gate.auth[1] = "Bearer"
                  /\ gate.auth[2] = " "
                  /\ gate.auth[3] # " ") =>
                    gate.token = SubSeq(gate.auth, 3, Len(gate.auth))
        /\ gate.auth = NoValue =>
              /\ gate.cookieRead
              /\ gate.token = CookieOf(gate)

\* Header and cookie both sent: the header's token was used.
C6_Witness ==
    /\ gate.fn \in {"id", "access"}
    /\ gate.auth = <<"Bearer", " ", "t1">>
    /\ CookieOf(gate) = <<"t2">>
    /\ gate.token = <<"t1">>
    /\ gate.outcome = "return"

\* C7 as stated: in validate_policy_or_exit every outcome other than a decision
\* "Permit" ends in the same 403 exit, never in an error.
C7_Original ==
    (gate.fn = "policy" /\ ~Permitted) =>
        (Denied(HTTP_FORBIDDEN) /\ gate.body = <<"Error 403 : Access Forbidden", "\n">>)

\* C8 as stated: validate_policy_or_exit has no credential exactly when the token
\* extraction, run with the policy cookie, gives no token, and otherwise passes on
\* the credential the extraction leaves in the Authorization header: the Bearer
\* header as it is, or "Bearer <token>" made from the cookie.
C8_Original ==
    gate.fn = "policy" =>
        LET ext == ExtractToken(gate.auth, req.accessCookie)
        IN  /\ (ext.token = NoValue) <=> ~gate.called
            /\ ext.token # NoValue => gate.sent = ext.header

\* C12: when validate_policy_or_exit finds neither an Authorization header on the
\* request nor the cookie cfc-access-token-cookie, it ends in the 403 exit at once:
\* the policy-decision point is not called, nothing is sent and nothing is read back.
C12_NoCredentialNoCall ==
    (gate.fn = "policy" /\ gate.auth = NoValue /\ req.accessCookie = NoValue) =>
        /\ ~gate.called
        /\ gate.sent = NoValue
        /\ gate.reply = NoReply
        /\ Denied(HTTP_FORBIDDEN)
        /\ gate.ret = LuaNil

C12_Witness ==
    /\ gate.fn = "policy"
    /\ req.auth = NoValue
    /\ gate.auth = NoValue
    /\ req.accessCookie = NoValue
    /\ req.infoCookie # NoValue
    /\ ~gate.called
    /\ Denied(HTTP_FORBIDDEN)

\* The text of a response body, the newline ngx.say ends it with left off.
Text(body) == IF body = <<>> THEN "" ELSE body[1]

\* C14 as stated: a request without Authorization header and without cookie that
\* reaches validate_id_token_or_exit is answered 401, the body being the 401 page
\* read at start-up, and empty when no page directory is configured or the page
\* could not be read.
C14_Original ==
    (gate.fn = "id" /\ gate.auth = NoValue /\ req.infoCookie = NoValue) =>
        /\ Denied(HTTP_UNAUTHORIZED)
        /\ Text(gate.body) = (IF body401 = LuaNil THEN "" ELSE body401)

====
